---- MODULE Spec2Model ----
(***************************************************************************)
(* Task-manager backend: the rule-based priority engine, the task          *)
(* lifecycle (status / submission workflow, authorization), the            *)
(* department, role and login operations, requests that interleave on one  *)
(* task and the deadline scan, as state machines.                          *)
(*                                                                         *)
(* Optional values (a field that may be undefined / null) are sequences of *)
(* length 0 or 1: <<>> is "absent", <<v>> is "present with value v".       *)
(* Strings that the code transforms (tags) are sequences of characters.    *)
(* Times are integers in milliseconds, as JavaScript Date arithmetic.      *)
(***************************************************************************)
EXTENDS Integers, Sequences, FiniteSets, TLC

VARIABLES
    now,          \* the clock: what `new Date()` returns
    taskData,     \* the argument of calculateRuleBasedPriority
    score,        \* its result: <<>> before the call, <<n>> after
    openai,       \* TRUE iff the OpenAI client is configured
    tasks,        \* the Task collection: id -> document (<<>> when absent)
    users,        \* the User collection: id -> document
    departments,  \* the Department collection: id -> document
    response,     \* the last request and the HTTP response it got
    script        \* the position in a scripted sequence of requests; where
                  \* requests interleave, what each holds between two awaits

vars == <<now, taskData, score, openai, tasks, users, departments, response, script>>

None == <<>>
Some(v) == <<v>>
Val(o) == o[1]

(***************************************************************************)
(* Bounds of the model                                                     *)
(***************************************************************************)
MaxTags == 2          \* longest tag list drawn as an input
MaxTime == 1          \* the clock stops after this many days
MaxRevisions == 1     \* longest revisionHistory of the lifecycle specification
MaxUsers == 6         \* most users registered after the seed

(***************************************************************************)
(* Priority engine: services/ai-priority.service (calculateRuleBasedPriority)*)
(***************************************************************************)
MsPerDay == 1000 * 60 * 60 * 24
MsPerHour == 1000 * 60 * 60

\* Math.ceil(a / b) for b > 0 (JavaScript's -0 compares equal to 0)
Ceil(a, b) == -((-a) \div b)

Min(a, b) == IF a <= b THEN a ELSE b
Max(a, b) == IF a >= b THEN a ELSE b

UpperChars == <<"A","B","C","D","E","F","G","H","I","J","K","L","M",
                "N","O","P","Q","R","S","T","U","V","W","X","Y","Z">>
LowerChars == <<"a","b","c","d","e","f","g","h","i","j","k","l","m",
                "n","o","p","q","r","s","t","u","v","w","x","y","z">>

\* String.prototype.toLowerCase, character by character
toLowerCase(s) ==
    [i \in DOMAIN s |->
        IF \E k \in DOMAIN UpperChars : UpperChars[k] = s[i]
        THEN LowerChars[CHOOSE k \in DOMAIN UpperChars : UpperChars[k] = s[i]]
        ELSE s[i]]

urgentTags ==
    { <<"u","r","g","e","n","t">>,
      <<"i","m","p","o","r","t","a","n","t">>,
      <<"c","r","i","t","i","c","a","l">>,
      <<"a","s","a","p">>,
      <<"h","i","g","h","-","p","r","i","o","r","i","t","y">> }

\* Math.ceil((deadline - now) / (1000 * 60 * 60 * 24))
daysUntilDeadline(deadline, nw) == Ceil(deadline - nw, MsPerDay)

\* 1. Deadline urgency
FloorDeadlineUrgency(td, nw) ==
    IF td.deadline = None THEN 0
    ELSE LET d == (Val(td.deadline) - nw) \div MsPerDay IN   \* Math.floor
         IF d < 0 THEN 40
         ELSE IF d <= 1 THEN 35
         ELSE IF d <= 3 THEN 25
         ELSE IF d <= 7 THEN 15
         ELSE IF d <= 14 THEN 5
         ELSE 0
DeadlineUrgency(td, nw) ==
    IF td.deadline = None THEN 0
    ELSE LET d == daysUntilDeadline(Val(td.deadline), nw) IN
         IF d < 0 THEN 40
         ELSE IF d <= 1 THEN 35
         ELSE IF d <= 3 THEN 25
         ELSE IF d <= 7 THEN 15
         ELSE IF d <= 14 THEN 5
         ELSE 0

\* 2. Category importance: categoryScores[taskData.category] || 0
categoryScores(category) ==
    CASE category = "Urgent" -> 20
      [] category = "Important" -> 15
      [] category = "Work" -> 10
      [] category = "Personal" -> 5
      [] OTHER -> 0

\* 3. Estimated time: `if (taskData.estimatedTime)` is false for undefined and 0
LongTaskPenalty(td) ==
    IF td.estimatedTime = None \/ Val(td.estimatedTime) = 0 THEN 0
    ELSE LET e == Val(td.estimatedTime) IN
         IF e <= 30 THEN 15
         ELSE IF e <= 60 THEN 10
         ELSE IF e <= 120 THEN 5
         ELSE -15
EstimatedTimeScore(td) ==
    IF td.estimatedTime = None \/ Val(td.estimatedTime) = 0 THEN 0
    ELSE LET e == Val(td.estimatedTime) IN
         IF e <= 30 THEN 15
         ELSE IF e <= 60 THEN 10
         ELSE IF e <= 120 THEN 5
         ELSE 0

\* 4. Priority tags: tags.some(tag => urgentTags.includes(tag.toLowerCase()))
hasUrgentTag(td) ==
    /\ td.tags # None
    /\ \E i \in DOMAIN Val(td.tags) : toLowerCase(Val(td.tags)[i]) \in urgentTags

CumulativeTagScore(td) ==
    IF td.tags = None THEN 0
    ELSE 10 * Cardinality({i \in DOMAIN Val(td.tags) :
                              toLowerCase(Val(td.tags)[i]) \in urgentTags})
TagScore(td) == IF hasUrgentTag(td) THEN 10 ELSE 0

\* 5. Manual priority boost
PriorityBoost(td) ==
    IF td.priority = "High" THEN 15
    ELSE IF td.priority = "Medium" THEN 5
    ELSE 0

\* Math.max(0, Math.min(100, Math.round(score))); the sum is an integer
calculateRuleBasedPriority(td, nw) ==
    Max(0, Min(100, 50 + DeadlineUrgency(td, nw) + categoryScores(td.category)
                       + EstimatedTimeScore(td) + TagScore(td) + PriorityBoost(td)))

(***************************************************************************)
(* Inputs of the priority engine                                           *)
(***************************************************************************)
\* deadline - now, in milliseconds: both sides of every band boundary
DeadlineOffsets ==
    { -2 * MsPerDay, -MsPerDay - 1, -MsPerDay, -MsPerDay + 1, -1000, -1, 0, 1,
      MsPerDay, MsPerDay + 1, 25 * MsPerHour, 3 * MsPerDay, 3 * MsPerDay + 1,
      7 * MsPerDay, 7 * MsPerDay + 1, 14 * MsPerDay, 14 * MsPerDay + 1 }

Categories == {"Work", "Personal", "Urgent", "Important", "Other"}
Undefined == "undefined"
Priorities == {"High", "Medium", "Low"}
EstimatedTimes == {0, 1, 30, 31, 60, 61, 120, 121}

TagPool ==
    { <<"u","r","g","e","n","t">>, <<"A","S","A","P">>, <<"l","a","t","e","r">> }

RECURSIVE SeqsUpTo(_, _)
SeqsUpTo(S, n) ==
    IF n = 0 THEN {<<>>}
    ELSE LET shorter == SeqsUpTo(S, n - 1) IN
         shorter \cup {Append(s, x) : s \in shorter, x \in S}

TagLists == SeqsUpTo(TagPool, MaxTags)

TaskDataInputs(nw) ==
    [ deadline      : {None} \cup {Some(nw + d) : d \in DeadlineOffsets},
      category      : Categories \cup {Undefined},
      estimatedTime : {None} \cup {Some(e) : e \in EstimatedTimes},
      tags          : {None} \cup {Some(l) : l \in TagLists},
      priority      : Priorities \cup {Undefined} ]

\* Defaults of the parts of the state a specification does not use
NoResponse == [op |-> "none", user |-> "none", target |-> "none", status |-> 0, data |-> <<>>]
NoScript == [step |-> 0, feedback |-> ""]

InitScore ==
    /\ now = 0
    /\ taskData \in TaskDataInputs(now)
    /\ score = None
    /\ openai = FALSE
    /\ tasks = <<>>
    /\ users = <<>>
    /\ departments = <<>>
    /\ response = NoResponse
    /\ script = NoScript

\* One call of calculateRuleBasedPriority(taskData)
ScoreTask ==
    /\ score = None
    /\ score' = Some(calculateRuleBasedPriority(taskData, now))
    /\ UNCHANGED <<now, taskData, openai, tasks, users, departments, response>>

NextScore == ScoreTask /\ UNCHANGED script

SpecScore == InitScore /\ [][NextScore]_vars

(***************************************************************************)
(* Documents: models/Task.model, the users of a running deployment         *)
(***************************************************************************)
Statuses == {"To-Do", "In-Progress", "Done", "Overdue"}
SubmissionStatuses == {"Not Submitted", "Pending Review", "Accepted", "Rejected"}
Roles == {"SUPER_ADMIN", "MANAGER", "TEAM_MEMBER"}

\* The reserved e-mail address of the super admin
SuperAdminEmail == "jheeva123@gmail.com"

\* The principals: the super admin, two managers (one heading department
\* d1, one without department) and two team members (one of d1, one without)
InitUsers ==
    [u \in {"admin", "mgr", "mgr2", "tm", "tm2"} |->
        [ email |-> IF u = "admin" THEN SuperAdminEmail ELSE u,
          role |-> CASE u = "admin" -> "SUPER_ADMIN"
                     [] u \in {"mgr", "mgr2"} -> "MANAGER"
                     [] OTHER -> "TEAM_MEMBER",
          department |-> IF u \in {"mgr", "tm"} THEN Some("d1") ELSE None ]]

TaskIds == {"t1"}

\* Task.create(body): the schema's defaults for what the body leaves out
NewTask(body, nw) ==
    [ description             |-> body.description,
      status                  |-> IF body.status = Undefined THEN "To-Do" ELSE body.status,
      priority                |-> IF body.priority = Undefined THEN "Medium" ELSE body.priority,
      aiPriorityScore         |-> IF body.aiPriorityScore = None THEN 50
                                  ELSE Val(body.aiPriorityScore),
      deadline                |-> body.deadline,
      category                |-> IF body.category = Undefined THEN "Other" ELSE body.category,
      tags                    |-> IF body.tags = None THEN <<>> ELSE Val(body.tags),
      estimatedTime           |-> body.estimatedTime,
      user                    |-> body.user,
      assignedBy              |-> body.assignedBy,
      assignedTo              |-> Val(body.assignedTo),
      department              |-> body.department,
      completedAt             |-> None,
      completedBeforeDeadline |-> None,
      isArchived              |-> FALSE,
      reminderSent            |-> FALSE,
      submittedCode           |-> "",
      submittedFiles          |-> <<>>,
      submissionStatus        |-> "Not Submitted",
      submissionDate          |-> None,
      managerFeedback         |-> "",
      revisionHistory         |-> <<>>,
      comments                |-> <<>> ]

\* The attributes of a stored document as the priority engine reads them
TaskDataOf(doc) ==
    [ description   |-> doc.description,
      deadline      |-> doc.deadline,
      category      |-> doc.category,
      estimatedTime |-> doc.estimatedTime,
      tags          |-> Some(doc.tags),
      priority      |-> doc.priority ]

Respond(op, u, id, code) ==
    [op |-> op, user |-> u, target |-> id, status |-> code, data |-> <<>>]

(***************************************************************************)
(* Priority scoring in the task controller (createTask, updateTask,         *)
(* recalculatePriority of the controller that calls calculateAIPriority)   *)
(***************************************************************************)
\* The scores drawn as answers of the OpenAI completion (any integer of
\* 0..100 is accepted): both sides of the two tier thresholds
AIScores == {39, 40, 74, 75}

\* calculateAIPriority: the results it can return.  With the OpenAI client
\* configured and a title and description present (the title is required,
\* so always present) the score is the integer in 0..100 the completion
\* holds, and a failure or an invalid answer falls back to the rules;
\* otherwise it is the rule-based score.
calculateAIPriority(td, nw) ==
    IF openai /\ td.description # ""
    THEN AIScores \cup {calculateRuleBasedPriority(td, nw)}
    ELSE {calculateRuleBasedPriority(td, nw)}

\* createTask: "Auto-set priority based on AI score"
ShiftedPriorityFromScore(s) ==
    IF s > 75 THEN "High" ELSE IF s > 40 THEN "Medium" ELSE "Low"
autoSetPriority(s) ==
    IF s >= 75 THEN "High" ELSE IF s >= 40 THEN "Medium" ELSE "Low"

\* recalculatePriority: "Update priority based on score"
SwappedPriorityFromScore(s) ==
    IF s >= 75 THEN "Low" ELSE IF s >= 40 THEN "Medium" ELSE "High"
updatePriorityFromScore(s) ==
    IF s >= 75 THEN "High" ELSE IF s >= 40 THEN "Medium" ELSE "Low"

\* The request bodies createTask is called with
CreateBodies(nw) ==
    [ description     : {"", "d"},
      deadline        : {None, Some(nw + 25 * MsPerHour)},
      category        : {Undefined, "Work"},
      estimatedTime   : {None, Some(30)},
      tags            : {None},
      priority        : {Undefined, "High"},
      assignedTo      : {None, Some("tm")},
      status          : {Undefined},
      aiPriorityScore : {None},
      department      : {None},
      user            : {"none"},
      assignedBy      : {"none"} ]

\* exports.createTask (scoring controller)
createTaskAI(u, id, body) ==
    /\ id \notin DOMAIN tasks
    /\ IF users[u].role # "MANAGER"
       THEN /\ response' = Respond("createTaskAI", u, id, 403)
            /\ UNCHANGED tasks
       ELSE IF body.assignedTo = None
       THEN /\ response' = Respond("createTaskAI", u, id, 400)
            /\ UNCHANGED tasks
       ELSE \E aiPriorityScore \in calculateAIPriority(body, now) :
            LET scored == [body EXCEPT !.user = u, !.assignedBy = u,
                                       !.aiPriorityScore = Some(aiPriorityScore),
                                       !.priority = autoSetPriority(aiPriorityScore)]
            IN /\ tasks' = tasks @@ (id :> NewTask(scored, now))
               /\ response' = Respond("createTaskAI", u, id, 201)
    /\ UNCHANGED <<now, taskData, score, openai, users, departments>>

\* exports.recalculatePriority
recalculatePriority(u, id) ==
    /\ IF id \notin DOMAIN tasks
       THEN /\ response' = Respond("recalculatePriority", u, id, 404)
            /\ UNCHANGED tasks
       ELSE IF tasks[id].user # u
       THEN /\ response' = Respond("recalculatePriority", u, id, 403)
            /\ UNCHANGED tasks
       ELSE \E aiPriorityScore \in calculateAIPriority(TaskDataOf(tasks[id]), now) :
            /\ tasks' = [tasks EXCEPT ![id].aiPriorityScore = aiPriorityScore,
                                      ![id].priority = updatePriorityFromScore(aiPriorityScore)]
            /\ response' = Respond("recalculatePriority", u, id, 200)
    /\ UNCHANGED <<now, taskData, score, openai, users, departments>>

\* A body that carries `deadline: null`: neither an absent path (None) nor a
\* date (Some(v)), told from both by its length
Null == <<"null", "null">>

IsNull(o) == Len(o) = 2

\* findByIdAndUpdate(id, req.body): $set of the fields the body carries
ApplyPatch(doc, patch) ==
    [doc EXCEPT
        !.deadline        = IF patch.deadline = None THEN @
                            ELSE IF IsNull(patch.deadline) THEN None
                            ELSE patch.deadline,
        !.category        = IF patch.category = None THEN @ ELSE Val(patch.category),
        !.estimatedTime   = IF patch.estimatedTime = None THEN @ ELSE patch.estimatedTime,
        !.tags            = IF patch.tags = None THEN @ ELSE Val(patch.tags),
        !.priority        = IF patch.priority = None THEN @ ELSE Val(patch.priority),
        !.status          = IF patch.status = None THEN @ ELSE Val(patch.status),
        !.aiPriorityScore = IF patch.aiPriorityScore = None THEN @
                            ELSE Val(patch.aiPriorityScore),
        !.revisionHistory = IF patch.revisionHistory = None THEN @
                            ELSE Val(patch.revisionHistory)]

\* The request bodies updateTask is called with (scoring controller)
PriorityPatches(nw) ==
    [ deadline        : {None, Some(nw - 2 * MsPerDay)},
      category        : {None, Some("Urgent")},
      estimatedTime   : {None, Some(0)},
      tags            : {None, Some(<< <<"A","S","A","P">> >>)},
      priority        : {None, Some("Low")},
      status          : {None},
      aiPriorityScore : {None},
      revisionHistory : {None} ]

\* `req.body.deadline || req.body.category || req.body.estimatedTime`
touchesScoredFields(patch) ==
    \/ (patch.deadline # None /\ ~IsNull(patch.deadline))
    \/ patch.category # None
    \/ (patch.estimatedTime # None /\ Val(patch.estimatedTime) # 0)

\* exports.updateTask (scoring controller)
updateTaskAI(u, id, patch) ==
    /\ IF id \notin DOMAIN tasks
       THEN /\ response' = Respond("updateTaskAI", u, id, 404)
            /\ UNCHANGED tasks
       ELSE IF users[u].role # "MANAGER" \/ tasks[id].assignedBy # u
       THEN /\ response' = Respond("updateTaskAI", u, id, 403)
            /\ UNCHANGED tasks
       ELSE IF touchesScoredFields(patch)
       THEN \E aiPriorityScore \in
                    calculateAIPriority(TaskDataOf(ApplyPatch(tasks[id], patch)), now) :
            /\ tasks' = [tasks EXCEPT ![id] =
                    ApplyPatch(@, [patch EXCEPT !.aiPriorityScore = Some(aiPriorityScore)])]
            /\ response' = Respond("updateTaskAI", u, id, 200)
       ELSE /\ tasks' = [tasks EXCEPT ![id] = ApplyPatch(@, patch)]
            /\ response' = Respond("updateTaskAI", u, id, 200)
    /\ UNCHANGED <<now, taskData, score, openai, users, departments>>

\* The callers: the creating manager, another manager, a team member
PriorityCallers == {"mgr", "mgr2", "tm"}

InitPriority ==
    /\ now = 0
    /\ taskData = [deadline |-> None, category |-> Undefined, estimatedTime |-> None,
                   tags |-> None, priority |-> Undefined]
    /\ score = None
    /\ openai \in BOOLEAN
    /\ tasks = <<>>
    /\ users = InitUsers
    /\ departments = <<>>
    /\ response = NoResponse
    /\ script = NoScript

PriorityRequests ==
    \E u \in PriorityCallers, id \in TaskIds :
        \/ \E body \in CreateBodies(now) : createTaskAI(u, id, body)
        \/ \E patch \in PriorityPatches(now) : updateTaskAI(u, id, patch)
        \/ recalculatePriority(u, id)

NextPriority == PriorityRequests /\ UNCHANGED script

SpecPriority == InitPriority /\ [][NextPriority]_vars

(***************************************************************************)
(* Task lifecycle: controllers/task.controller (roles, departments,       *)
(* submission workflow)                                                    *)
(***************************************************************************)
\* Helper: the status a read reports (the document in memory, never saved)
OverdueEvenWhenDone(task, nw) ==
    IF task.deadline # None /\ nw > Val(task.deadline)
    THEN [task EXCEPT !.status = "Overdue"]
    ELSE task
checkOverdue(task, nw) ==
    IF task.deadline # None /\ task.status # "Done" /\ nw > Val(task.deadline)
    THEN [task EXCEPT !.status = "Overdue"]
    ELSE task

\* taskSchema.pre('save'): runs on task.save(), not on findByIdAndUpdate;
\* isModified('status') holds when the status differs from the loaded one
preSave(loaded, task, nw) ==
    IF task.status # loaded.status
    THEN IF task.status = "Done" /\ task.completedAt = None
         THEN [task EXCEPT !.completedAt = Some(nw)]
         ELSE IF task.status # "Done"
         THEN [task EXCEPT !.completedAt = None]
         ELSE task
    ELSE task

\* The listing query of getTasks (no query-string filters)
listQuery(u, task) ==
    /\ task.isArchived = FALSE
    /\ IF users[u].role = "SUPER_ADMIN" THEN TRUE
       ELSE IF users[u].role = "MANAGER"
       THEN IF users[u].department # None
            THEN task.department = users[u].department
            ELSE task.assignedBy = u
       ELSE /\ task.assignedTo = u
            /\ users[u].department # None => task.department = users[u].department

\* exports.getTasks
getTasks(u) ==
    /\ response' = [ Respond("getTasks", u, "none", 200) EXCEPT !.data =
            [id \in {i \in DOMAIN tasks : listQuery(u, tasks[i])} |->
                checkOverdue(tasks[id], now)] ]
    /\ UNCHANGED <<now, taskData, score, openai, tasks, users, departments>>

\* exports.getTask
getTask(u, id) ==
    /\ IF id \notin DOMAIN tasks
       THEN response' = Respond("getTask", u, id, 404)
       ELSE LET task == tasks[id]
                isSuperAdmin == users[u].role = "SUPER_ADMIN"
                isManager == users[u].role = "MANAGER" /\ task.assignedBy = u
                isAssignedTeamMember == users[u].role = "TEAM_MEMBER" /\ task.assignedTo = u
            IN IF ~isSuperAdmin /\ ~isManager /\ ~isAssignedTeamMember
               THEN response' = Respond("getTask", u, id, 403)
               ELSE response' = [ Respond("getTask", u, id, 200) EXCEPT !.data =
                                    (id :> checkOverdue(task, now)) ]
    /\ UNCHANGED <<now, taskData, score, openai, tasks, users, departments>>

\* The request bodies createTask is called with (lifecycle controller)
LifecycleBodies ==
    [ description     : {""},
      deadline        : {None, Some(MsPerHour)},
      category        : {Undefined},
      estimatedTime   : {None},
      tags            : {None},
      priority        : {Undefined},
      assignedTo      : {None, Some("tm")},
      status          : {Undefined},
      aiPriorityScore : {None},
      department      : {None},
      user            : {"none"},
      assignedBy      : {"none"} ]

\* exports.createTask
createTask(u, id, body) ==
    /\ id \notin DOMAIN tasks
    /\ IF users[u].role # "MANAGER" /\ users[u].role # "SUPER_ADMIN"
       THEN /\ response' = Respond("createTask", u, id, 403)
            /\ UNCHANGED tasks
       ELSE IF body.assignedTo = None
       THEN /\ response' = Respond("createTask", u, id, 400)
            /\ UNCHANGED tasks
       ELSE LET owned == [body EXCEPT !.user = u, !.assignedBy = u,
                                      !.department = IF users[u].department # None
                                                     THEN users[u].department ELSE @]
            IN /\ tasks' = tasks @@ (id :> NewTask(owned, now))
               /\ response' = Respond("createTask", u, id, 201)
    /\ UNCHANGED <<now, taskData, score, openai, users, departments>>

\* The request bodies updateTask is called with (lifecycle controller):
\* nothing, a status, an empty revisionHistory
NoPatch ==
    [ deadline |-> None, category |-> None, estimatedTime |-> None, tags |-> None,
      priority |-> None, status |-> None, aiPriorityScore |-> None,
      revisionHistory |-> None ]
LifecyclePatches ==
    {NoPatch}
        \cup {[NoPatch EXCEPT !.status = Some(st)] : st \in Statuses}
        \cup {[NoPatch EXCEPT !.revisionHistory = Some(<<>>)]}

\* exports.updateTask
updateTask(u, id, patch) ==
    /\ IF id \notin DOMAIN tasks
       THEN /\ response' = Respond("updateTask", u, id, 404)
            /\ UNCHANGED tasks
       ELSE LET task == tasks[id]
                isSuperAdmin == users[u].role = "SUPER_ADMIN"
                isTaskManager == users[u].role = "MANAGER" /\ task.assignedBy = u
            IN IF ~isSuperAdmin /\ ~isTaskManager
               THEN /\ response' = Respond("updateTask", u, id, 403)
                    /\ UNCHANGED tasks
               ELSE /\ tasks' = [tasks EXCEPT ![id] = ApplyPatch(@, patch)]
                    /\ response' = Respond("updateTask", u, id, 200)
    /\ UNCHANGED <<now, taskData, score, openai, users, departments>>

\* exports.deleteTask
deleteTask(u, id) ==
    /\ IF id \notin DOMAIN tasks
       THEN /\ response' = Respond("deleteTask", u, id, 404)
            /\ UNCHANGED tasks
       ELSE IF users[u].role # "MANAGER" \/ tasks[id].assignedBy # u
       THEN /\ response' = Respond("deleteTask", u, id, 403)
            /\ UNCHANGED tasks
       ELSE /\ tasks' = [i \in DOMAIN tasks \ {id} |-> tasks[i]]
            /\ response' = Respond("deleteTask", u, id, 200)
    /\ UNCHANGED <<now, taskData, score, openai, users, departments>>

\* exports.updateTaskStatus
updateTaskStatus(u, id, status) ==
    /\ IF id \notin DOMAIN tasks
       THEN /\ response' = Respond("updateTaskStatus", u, id, 404)
            /\ UNCHANGED tasks
       ELSE LET task == tasks[id] IN
            IF users[u].role = "TEAM_MEMBER" /\ task.assignedTo # u
            THEN /\ response' = Respond("updateTaskStatus", u, id, 403)
                 /\ UNCHANGED tasks
            ELSE IF users[u].role = "TEAM_MEMBER"
                    /\ (status = "Overdue" \/ task.status = "Overdue")
            THEN /\ response' = Respond("updateTaskStatus", u, id, 403)
                 /\ UNCHANGED tasks
            ELSE IF users[u].role = "MANAGER" /\ task.assignedBy # u
            THEN /\ response' = Respond("updateTaskStatus", u, id, 403)
                 /\ UNCHANGED tasks
            ELSE LET oldStatus == task.status
                     marked ==
                         IF status = "Done" /\ oldStatus # "Done"
                         THEN [task EXCEPT
                                 !.status = status,
                                 !.completedAt = Some(now),
                                 !.completedBeforeDeadline =
                                     IF task.deadline # None
                                     THEN Some(now <= Val(task.deadline)) ELSE @]
                         ELSE [task EXCEPT !.status = status]
                 IN /\ tasks' = [tasks EXCEPT ![id] = preSave(task, marked, now)]
                    /\ response' = Respond("updateTaskStatus", u, id, 200)
    /\ UNCHANGED <<now, taskData, score, openai, users, departments>>

\* exports.updateTaskOrder: `updates` maps task ids to the status of their
\* new column; findByIdAndUpdate skips an id that matches no document
updateTaskOrder(u, updates) ==
    /\ tasks' = [id \in DOMAIN tasks |->
                    IF id \in DOMAIN updates
                    THEN [tasks[id] EXCEPT !.status = updates[id]]
                    ELSE tasks[id]]
    /\ response' = Respond("updateTaskOrder", u, "none", 200)
    /\ UNCHANGED <<now, taskData, score, openai, users, departments>>

\* The documents of submittedFiles built from the uploaded file names
uploaded(files, nw) ==
    [i \in DOMAIN files |-> [name |-> files[i], url |-> files[i], uploadedAt |-> nw]]

\* revisionHistory.submittedFiles keeps name and url only
snapshotFiles(files) ==
    [i \in DOMAIN files |-> [name |-> files[i].name, url |-> files[i].url]]

\* String.prototype.trim on the code inputs drawn: " " is all white space
trim(code) == IF code = " " THEN "" ELSE code

\* "Save previous submission to revision history if exists"
NeverHasSubmission(task) == FALSE
hasSubmission(task) == task.submittedCode # "" \/ Len(task.submittedFiles) > 0

\* submitTaskSolution between findById and save: the previous submission
\* pushed to the history, the new one assigned
submitted(task, submittedCode, submittedFiles, nw) ==
    LET history ==
            IF hasSubmission(task)
            THEN Append(task.revisionHistory,
                    [ submittedCode  |-> task.submittedCode,
                      submittedFiles |-> snapshotFiles(task.submittedFiles),
                      submissionDate |-> task.submissionDate,
                      status         |-> task.submissionStatus,
                      feedback       |-> task.managerFeedback,
                      reviewedAt     |-> nw ])
            ELSE task.revisionHistory
    IN [task EXCEPT !.revisionHistory  = history,
                    !.submittedCode    = submittedCode,
                    !.submittedFiles   = uploaded(submittedFiles, nw),
                    !.submissionStatus = "Pending Review",
                    !.submissionDate   = Some(nw),
                    !.managerFeedback  = ""]

\* exports.submitTaskSolution
submitTaskSolution(u, id, submittedCode, submittedFiles) ==
    /\ IF trim(submittedCode) = "" /\ Len(submittedFiles) = 0
       THEN /\ response' = Respond("submitTaskSolution", u, id, 400)
            /\ UNCHANGED tasks
       ELSE IF id \notin DOMAIN tasks
       THEN /\ response' = Respond("submitTaskSolution", u, id, 404)
            /\ UNCHANGED tasks
       ELSE IF tasks[id].assignedTo # u
       THEN /\ response' = Respond("submitTaskSolution", u, id, 403)
            /\ UNCHANGED tasks
       ELSE LET task == tasks[id]
            IN /\ tasks' = [tasks EXCEPT ![id] =
                    preSave(task, submitted(task, submittedCode, submittedFiles, now), now)]
               /\ response' = Respond("submitTaskSolution", u, id, 200)
    /\ UNCHANGED <<now, taskData, score, openai, users, departments>>

\* "Check if task has a submission"
AlwaysPendingSubmission(task) == TRUE
hasPendingSubmission(task) == task.submissionStatus = "Pending Review"

\* exports.acceptSubmission
acceptSubmission(u, id, feedback) ==
    /\ IF id \notin DOMAIN tasks
       THEN /\ response' = Respond("acceptSubmission", u, id, 404)
            /\ UNCHANGED tasks
       ELSE IF users[u].role # "MANAGER" \/ tasks[id].assignedBy # u
       THEN /\ response' = Respond("acceptSubmission", u, id, 403)
            /\ UNCHANGED tasks
       ELSE IF ~hasPendingSubmission(tasks[id])
       THEN /\ response' = Respond("acceptSubmission", u, id, 400)
            /\ UNCHANGED tasks
       ELSE LET task == tasks[id]
                accepted ==
                    [task EXCEPT
                        !.submissionStatus = "Accepted",
                        !.status = "Done",
                        !.completedAt = Some(now),
                        !.completedBeforeDeadline =
                            IF task.deadline # None
                            THEN Some(now <= Val(task.deadline)) ELSE None,
                        !.managerFeedback = IF feedback = "" THEN "Accepted" ELSE feedback]
            IN /\ tasks' = [tasks EXCEPT ![id] = preSave(task, accepted, now)]
               /\ response' = Respond("acceptSubmission", u, id, 200)
    /\ UNCHANGED <<now, taskData, score, openai, users, departments>>

\* `!feedback`: the feedback is missing or the empty string
AnyFeedback(feedback) == FALSE
missingFeedback(feedback) == feedback = ""

\* rejectSubmission between findById and save: the reviewed submission
\* pushed to the history, the task sent back to In-Progress
rejected(task, feedback, nw) ==
    [task EXCEPT
        !.revisionHistory = Append(@,
            [ submittedCode  |-> task.submittedCode,
              submittedFiles |-> snapshotFiles(task.submittedFiles),
              submissionDate |-> task.submissionDate,
              status         |-> "Rejected",
              feedback       |-> feedback,
              reviewedAt     |-> nw ]),
        !.submissionStatus = "Rejected",
        !.status = "In-Progress",
        !.managerFeedback = feedback]

\* exports.rejectSubmission
rejectSubmission(u, id, feedback) ==
    /\ IF missingFeedback(feedback)
       THEN /\ response' = Respond("rejectSubmission", u, id, 400)
            /\ UNCHANGED tasks
       ELSE IF id \notin DOMAIN tasks
       THEN /\ response' = Respond("rejectSubmission", u, id, 404)
            /\ UNCHANGED tasks
       ELSE IF users[u].role # "MANAGER" \/ tasks[id].assignedBy # u
       THEN /\ response' = Respond("rejectSubmission", u, id, 403)
            /\ UNCHANGED tasks
       ELSE IF ~hasPendingSubmission(tasks[id])
       THEN /\ response' = Respond("rejectSubmission", u, id, 400)
            /\ UNCHANGED tasks
       ELSE LET task == tasks[id]
            IN /\ tasks' = [tasks EXCEPT ![id] =
                    preSave(task, rejected(task, feedback, now), now)]
               /\ response' = Respond("rejectSubmission", u, id, 200)
    /\ UNCHANGED <<now, taskData, score, openai, users, departments>>

\* Time passes: a day at a time
Tick ==
    /\ now < MaxTime * MsPerDay
    /\ now' = now + MsPerDay
    /\ UNCHANGED <<taskData, score, openai, tasks, users, departments, response>>

\* The inputs of the submission workflow: nothing, code with a file
LifecycleSubmissions ==
    { [code |-> "", files |-> <<>>],
      [code |-> "c1", files |-> <<"f1">>] }
Feedbacks == {"", "fix X"}

\* The callers: the super admin, the manager of d1, the team member the
\* tasks are assigned to and a team member they are not assigned to
Callers == {"admin", "mgr", "tm", "tm2"}

Init ==
    /\ now = 0
    /\ taskData = [deadline |-> None, category |-> Undefined, estimatedTime |-> None,
                   tags |-> None, priority |-> Undefined]
    /\ score = None
    /\ openai = FALSE
    /\ tasks = <<>>
    /\ users = InitUsers
    /\ departments = <<>>
    /\ response = NoResponse
    /\ script = NoScript

\* The bounds on what a task accumulates
Bounded ==
    \A id \in DOMAIN tasks :
        Len(tasks[id].revisionHistory) <= MaxRevisions

Requests ==
    \E u \in Callers :
        \/ getTasks(u)
        \/ \E st \in Statuses : updateTaskOrder(u, [id \in TaskIds |-> st])
        \/ \E id \in TaskIds :
            \/ getTask(u, id)
            \/ \E body \in LifecycleBodies : createTask(u, id, body)
            \/ \E patch \in LifecyclePatches : updateTask(u, id, patch)
            \/ deleteTask(u, id)
            \/ \E st \in Statuses : updateTaskStatus(u, id, st)
            \/ \E sub \in LifecycleSubmissions : submitTaskSolution(u, id, sub.code, sub.files)
            \/ \E fb \in Feedbacks : acceptSubmission(u, id, fb)
            \/ \E fb \in Feedbacks : rejectSubmission(u, id, fb)

Next ==
    \/ Tick /\ UNCHANGED script
    \/ Requests /\ Bounded' /\ UNCHANGED script

Spec == Init /\ [][Next]_vars

(***************************************************************************)
(* The submission round trip: a manager assigns a task, the team member    *)
(* submits, the manager rejects with feedback, the team member resubmits   *)
(* and the manager accepts.  script.step counts the requests that          *)
(* succeeded; a request that fails leaves the script where it is.          *)
(***************************************************************************)
\* The inputs of the round trip: nothing, white space, code only, files
\* only, white space with a file
Submissions ==
    { [code |-> "", files |-> <<>>],
      [code |-> " ", files |-> <<>>],
      [code |-> "c1", files |-> <<>>],
      [code |-> "", files |-> <<"f1">>],
      [code |-> " ", files |-> <<"f1">>] }
RejectFeedbacks == {"", "fix X", "fix Y"}
Assigners == {"mgr", "mgr2"}

Advance(ok) == [script EXCEPT !.step = IF response'.status = ok THEN @ + 1 ELSE @]

RoundTripAssign ==
    /\ script.step = 0
    /\ \E u \in Assigners, id \in TaskIds, body \in LifecycleBodies :
            createTask(u, id, body)
    /\ script' = Advance(201)

\* Before the first submission the status is whatever the two set it to
RoundTripStatus ==
    /\ script.step = 1
    /\ \E id \in DOMAIN tasks, st \in Statuses :
            \E u \in {tasks[id].assignedBy, tasks[id].assignedTo} :
                updateTaskStatus(u, id, st)
    /\ UNCHANGED script

RoundTripSubmit ==
    /\ script.step \in {1, 3}
    /\ \E id \in DOMAIN tasks, sub \in Submissions :
            submitTaskSolution(tasks[id].assignedTo, id, sub.code, sub.files)
    /\ script' = Advance(200)

RoundTripReject ==
    /\ script.step = 2
    /\ \E id \in DOMAIN tasks, fb \in RejectFeedbacks :
            /\ rejectSubmission(tasks[id].assignedBy, id, fb)
            /\ script' = [Advance(200) EXCEPT
                              !.feedback = IF response'.status = 200 THEN fb ELSE @]

RoundTripAccept ==
    /\ script.step = 4
    /\ \E id \in DOMAIN tasks, fb \in Feedbacks :
            acceptSubmission(tasks[id].assignedBy, id, fb)
    /\ script' = Advance(200)

NextRoundTrip ==
    \/ Tick /\ UNCHANGED script
    \/ RoundTripAssign
    \/ RoundTripStatus
    \/ RoundTripSubmit
    \/ RoundTripReject
    \/ RoundTripAccept

SpecRoundTrip == Init /\ [][NextRoundTrip]_vars

(***************************************************************************)
(* Department membership: auth.controller (register) and                   *)
(* department.controller (addMemberToDepartment,                           *)
(* removeMemberFromDepartment) on the seeded database                      *)
(***************************************************************************)
\* Department.maxMembers: `default: 5`
DefaultMaxMembers == 5

\* seed.js: the super admin and the two departments, no members yet
SeedUsers ==
    "admin" :> [email |-> SuperAdminEmail, role |-> "SUPER_ADMIN", department |-> None]
SeedDepartments ==
    [d \in {"d1", "d2"} |->
        [ departmentHead |-> None,
          members        |-> <<>>,
          maxMembers     |-> DefaultMaxMembers,
          isActive       |-> TRUE,
          createdBy      |-> "admin" ]]

\* The ids of the users created after the seed, in the order of creation
UserNames == <<"u1", "u2", "u3", "u4", "u5", "u6", "u7", "u8">>
NewUserId == UserNames[Cardinality(DOMAIN users)]

\* Array.prototype.includes / $pull / filter on the members array
includes(members, userId) == \E i \in DOMAIN members : members[i] = userId
pull(members, userId) == SelectSeq(members, LAMBDA m : m # userId)

\* `dept.members.length >= dept.maxMembers`
reachedCapacity(dept) == Len(dept.members) >= dept.maxMembers

\* exports.register: `department` is the optional department id of the body
register(email, department) ==
    /\ IF \E u \in DOMAIN users : users[u].email = email
       THEN /\ response' = Respond("register", "none", "none", 400)
            /\ UNCHANGED <<users, departments>>
       ELSE IF department # None /\ Val(department) \notin DOMAIN departments
       THEN /\ response' = Respond("register", "none", Val(department), 404)
            /\ UNCHANGED <<users, departments>>
       ELSE IF department # None /\ ~departments[Val(department)].isActive
       THEN /\ response' = Respond("register", "none", Val(department), 400)
            /\ UNCHANGED <<users, departments>>
       ELSE IF department # None /\ reachedCapacity(departments[Val(department)])
       THEN /\ response' = Respond("register", "none", Val(department), 400)
            /\ UNCHANGED <<users, departments>>
       ELSE LET assignedRole == IF email = SuperAdminEmail
                                THEN "SUPER_ADMIN" ELSE "TEAM_MEMBER"
                deptId == IF email = SuperAdminEmail THEN None ELSE department
                id == NewUserId
            IN /\ users' = users @@ (id :> [email |-> email, role |-> assignedRole,
                                            department |-> deptId])
               /\ departments' =
                    IF deptId # None
                    THEN [departments EXCEPT ![Val(deptId)].members = Append(@, id)]
                    ELSE departments
               /\ response' = Respond("register", id,
                                      IF deptId # None THEN Val(deptId) ELSE "none", 201)
    /\ UNCHANGED <<now, taskData, score, openai, tasks>>

\* exports.addMemberToDepartment
addMemberToDepartment(u, deptId, userId) ==
    /\ IF users[u].role # "SUPER_ADMIN"
       THEN /\ response' = Respond("addMemberToDepartment", u, deptId, 403)
            /\ UNCHANGED <<users, departments>>
       ELSE IF deptId \notin DOMAIN departments \/ userId \notin DOMAIN users
       THEN /\ response' = Respond("addMemberToDepartment", u, deptId, 404)
            /\ UNCHANGED <<users, departments>>
       ELSE IF includes(departments[deptId].members, userId)
       THEN /\ response' = Respond("addMemberToDepartment", u, deptId, 400)
            /\ UNCHANGED <<users, departments>>
       ELSE LET department == departments[deptId]
                user == users[userId]
                pulled ==
                    IF user.department # None /\ Val(user.department) \in DOMAIN departments
                    THEN [departments EXCEPT ![Val(user.department)].members =
                                                    pull(@, userId)]
                    ELSE departments
            IN /\ departments' = [pulled EXCEPT ![deptId].members =
                                                    Append(department.members, userId)]
               /\ users' = [users EXCEPT ![userId].department = Some(deptId)]
               /\ response' = Respond("addMemberToDepartment", u, deptId, 200)
    /\ UNCHANGED <<now, taskData, score, openai, tasks>>

\* exports.removeMemberFromDepartment: findByIdAndUpdate skips a user id
\* that matches no document
removeMemberFromDepartment(u, deptId, userId) ==
    /\ IF users[u].role # "SUPER_ADMIN"
       THEN /\ response' = Respond("removeMemberFromDepartment", u, deptId, 403)
            /\ UNCHANGED <<users, departments>>
       ELSE IF deptId \notin DOMAIN departments
       THEN /\ response' = Respond("removeMemberFromDepartment", u, deptId, 404)
            /\ UNCHANGED <<users, departments>>
       ELSE IF departments[deptId].departmentHead = Some(userId)
       THEN /\ response' = Respond("removeMemberFromDepartment", u, deptId, 400)
            /\ UNCHANGED <<users, departments>>
       ELSE /\ departments' = [departments EXCEPT ![deptId].members = pull(@, userId)]
            /\ users' = IF userId \in DOMAIN users
                        THEN [users EXCEPT ![userId].department = None]
                        ELSE users
            /\ response' = Respond("removeMemberFromDepartment", u, deptId, 200)
    /\ UNCHANGED <<now, taskData, score, openai, tasks>>

\* The inputs: the reserved address, the address of the first user
\* registered, an address not used yet; no department, the seeded ones,
\* an id that matches none
RegisterEmails == {SuperAdminEmail, UserNames[1], NewUserId}
RegisterDepartments == {None, Some("d1"), Some("d2"), Some("d9")}
DepartmentInputs == {"d1", "d2", "d9"}
\* The callers: the super admin and the first user registered
DepartmentCallers == {"admin", UserNames[1]} \cap DOMAIN users
\* The user moved between departments: the first user registered, and an
\* id that matches no user
UserInputs == {UserNames[1], "u0"}

InitDepartments ==
    /\ now = 0
    /\ taskData = [deadline |-> None, category |-> Undefined, estimatedTime |-> None,
                   tags |-> None, priority |-> Undefined]
    /\ score = None
    /\ openai = FALSE
    /\ tasks = <<>>
    /\ users = SeedUsers
    /\ departments = SeedDepartments
    /\ response = NoResponse
    /\ script = NoScript

BoundedUsers == Cardinality(DOMAIN users) <= MaxUsers + 1

Register ==
    \E email \in RegisterEmails, department \in RegisterDepartments :
        register(email, department)
AddMember ==
    \E u \in DepartmentCallers, deptId \in DepartmentInputs, userId \in UserInputs :
        addMemberToDepartment(u, deptId, userId)
RemoveMember ==
    \E u \in DepartmentCallers, deptId \in DepartmentInputs, userId \in UserInputs :
        removeMemberFromDepartment(u, deptId, userId)

NextDepartments ==
    \/ Register /\ BoundedUsers' /\ UNCHANGED script
    \/ AddMember /\ UNCHANGED script
    \/ RemoveMember /\ UNCHANGED script

SpecDepartments == InitDepartments /\ [][NextDepartments]_vars

(***************************************************************************)
(* Claims about the priority engine (checked under SpecScore)              *)
(***************************************************************************)
Clamp(n) == Max(0, Min(100, n))
Scored == score # None
WithoutDeadline == [taskData EXCEPT !.deadline = None]
WithoutTags == [taskData EXCEPT !.tags = None]

\* The contributions as the specification states them
StatedD ==
    IF taskData.deadline = None THEN 0
    ELSE LET d == Ceil(Val(taskData.deadline) - now, MsPerDay) IN
         CASE d < 0 -> 40 [] d >= 0 /\ d <= 1 -> 35 [] d > 1 /\ d <= 3 -> 25
           [] d > 3 /\ d <= 7 -> 15 [] d > 7 /\ d <= 14 -> 5 [] OTHER -> 0
StatedC ==
    CASE taskData.category = "Urgent" -> 20 [] taskData.category = "Important" -> 15
      [] taskData.category = "Work" -> 10 [] taskData.category = "Personal" -> 5
      [] OTHER -> 0
StatedT ==
    IF taskData.estimatedTime = None THEN 0
    ELSE LET e == Val(taskData.estimatedTime) IN
         CASE e <= 30 -> 15 [] e > 30 /\ e <= 60 -> 10 [] e > 60 /\ e <= 120 -> 5
           [] OTHER -> 0
\* the tags of TagPool that match the urgent set when case is ignored
MatchesIgnoringCase(tag) ==
    tag \in { <<"u","r","g","e","n","t">>, <<"A","S","A","P">> }
SomeTagMatches ==
    /\ taskData.tags # None
    /\ \E i \in DOMAIN Val(taskData.tags) : MatchesIgnoringCase(Val(taskData.tags)[i])
StatedG == IF SomeTagMatches THEN 10 ELSE 0
StatedH ==
    CASE taskData.priority = "High" -> 15 [] taskData.priority = "Medium" -> 5
      [] OTHER -> 0

\* C1: for every input the score is clamp(50 + D + C + T + G + H, 0, 100) with
\* the contributions as stated (T = +15 for every set estimatedTime <= 30).
C1_ScoreIsStatedSum ==
    Scored => Val(score) = Clamp(50 + StatedD + StatedC + StatedT + StatedG + StatedH)

\* C2: a deadline strictly before now contributes the overdue +40, never +35.
C2_OverdueTakesPrecedence ==
    (Scored /\ taskData.deadline # None /\ Val(taskData.deadline) < now)
        => Val(score) = Clamp(calculateRuleBasedPriority(WithoutDeadline, now) + 40)

\* C3 as stated: a deadline 25 hours after now contributes +15 (7-day band).
C3_TwentyFiveHoursIsSevenDayBand ==
    (Scored /\ taskData.deadline = Some(now + 25 * MsPerHour))
        => Val(score) = Clamp(calculateRuleBasedPriority(WithoutDeadline, now) + 15)

\* C3 as amended: a deadline 25 hours after now has daysUntil = 2 and
\* contributes +25 (3-day band), not +15 and not +35.
C3_TwentyFiveHoursIsThreeDayBand ==
    (Scored /\ taskData.deadline = Some(now + 25 * MsPerHour))
        => Val(score) = Clamp(calculateRuleBasedPriority(WithoutDeadline, now) + 25)

C3_Witness ==
    /\ Scored
    /\ taskData.deadline = Some(now + 25 * MsPerHour)
    /\ taskData.category = "Other" /\ taskData.estimatedTime = None
    /\ taskData.tags = None /\ taskData.priority = Undefined
    /\ Val(score) = 75

\* C5: the urgent-tag bonus is flat and case-insensitive: any list with at
\* least one tag matching the urgent set ignoring case scores exactly +10 over
\* the same task without tags (so any two such lists score the same), and a
\* list with no matching tag scores +0.
C5_FlatCaseInsensitiveTagBonus ==
    Scored =>
        Val(score) = Clamp(calculateRuleBasedPriority(WithoutTags, now)
                           + (IF SomeTagMatches THEN 10 ELSE 0))

C5_Witness ==
    /\ Scored
    /\ taskData.tags = Some(<< <<"u","r","g","e","n","t">>, <<"A","S","A","P">> >>)
    /\ taskData.deadline = None /\ taskData.category = "Other"
    /\ taskData.estimatedTime = None /\ taskData.priority = Undefined
    /\ Val(score) = 60


(***************************************************************************)
(* Claims about the stored score and tier (checked under SpecPriority)     *)
(***************************************************************************)
\* C4: whenever createTask or recalculatePriority stores a score s, the stored
\* tier is High iff s >= 75, Medium iff 40 <= s <= 74, Low iff s <= 39.
C4_StoredTierMatchesScore ==
    (response.op \in {"createTaskAI", "recalculatePriority"} /\ response.status \in {200, 201})
        => LET t == tasks[response.target] IN
           /\ t.priority = "High" <=> t.aiPriorityScore >= 75
           /\ t.priority = "Medium" <=> (40 <= t.aiPriorityScore /\ t.aiPriorityScore <= 74)
           /\ t.priority = "Low" <=> t.aiPriorityScore <= 39

C4_Witness ==
    /\ response.op = "createTaskAI" /\ response.status = 201
    /\ tasks[response.target].aiPriorityScore = 75
    /\ tasks[response.target].priority = "High"

(***************************************************************************)
(* Claims about the submission round trip (checked under SpecRoundTrip)    *)
(***************************************************************************)
RoundTripDone == script.step = 5

\* C6: starting from a task with no submission, submit -> reject(F) ->
\* submit -> accept leaves exactly 2 revisionHistory entries,
\* submissionStatus Accepted, status Done, completedAt set, and the first
\* revisionHistory entry carrying the feedback F.
C6_RoundTripLeavesTwoRevisions ==
    RoundTripDone =>
        \A id \in DOMAIN tasks :
            /\ Len(tasks[id].revisionHistory) = 2
            /\ tasks[id].submissionStatus = "Accepted"
            /\ tasks[id].status = "Done"
            /\ tasks[id].completedAt # None
            /\ tasks[id].revisionHistory[1].feedback = script.feedback

C6_Witness ==
    /\ RoundTripDone
    /\ script.feedback = "fix Y"
    /\ response.op = "acceptSubmission" /\ response.status = 200
    /\ Len(tasks["t1"].revisionHistory) = 2
    /\ tasks["t1"].revisionHistory[1].feedback = "fix Y"
    /\ tasks["t1"].submissionStatus = "Accepted"
    /\ tasks["t1"].completedAt = Some(MsPerDay)

(***************************************************************************)
(* Claims about the task lifecycle (checked under Spec)                    *)
(***************************************************************************)
AssignedMember(u, id) ==
    /\ users[u].role = "TEAM_MEMBER"
    /\ tasks[id].assignedTo = u
    /\ tasks[id].assignedBy # u

\* C7: for a TEAM_MEMBER and a task assigned to them by somebody else,
\* updateTask fails with Forbidden and leaves the task unchanged, while
\* updateTaskStatus with a status of To-Do, In-Progress or Done succeeds.
C7_AssignedMemberUpdatesStatusOnly ==
    [][ \A u \in Callers, id \in DOMAIN tasks :
            AssignedMember(u, id) =>
                /\ \A patch \in LifecyclePatches :
                        updateTask(u, id, patch) =>
                            (response'.status = 403 /\ tasks' = tasks)
                /\ \A st \in {"To-Do", "In-Progress", "Done"} :
                        updateTaskStatus(u, id, st) => response'.status = 200
      ]_vars

PastDeadline(task) == task.deadline # None /\ Val(task.deadline) < now

\* What a read of the stored task has to report
ReportsDerivedStatus(stored, reported) ==
    /\ (stored.status # "Done" /\ PastDeadline(stored)) => reported.status = "Overdue"
    /\ stored.status = "Done" => reported.status = "Done"

\* C8: a read (getTask, getTasks) of a task whose stored status is not Done
\* and whose deadline is in the past reports Overdue and leaves the stored
\* task unchanged; a read of a task whose stored status is Done reports Done
\* even though the deadline is in the past.
C8_ReadsDeriveOverdueWithoutStoring ==
    [][ \A u \in Callers :
            /\ (response'.op = "getTasks" /\ getTasks(u)) =>
                /\ tasks' = tasks
                /\ \A id \in DOMAIN response'.data :
                        ReportsDerivedStatus(tasks[id], response'.data[id])
            /\ \A id \in DOMAIN tasks :
                (response'.op = "getTask" /\ response'.status = 200 /\ getTask(u, id)) =>
                    /\ tasks' = tasks
                    /\ ReportsDerivedStatus(tasks[id], response'.data[id])
      ]_vars

C8_Witness ==
    /\ response.op = "getTask" /\ response.status = 200
    /\ response.data["t1"].status = "Overdue"
    /\ tasks["t1"].status = "In-Progress"
    /\ PastDeadline(tasks["t1"])

\* C10: rejectSubmission with empty (or missing) feedback fails with a
\* validation error and leaves the task entirely unchanged.
C10_RejectWithoutFeedbackChangesNothing ==
    [][ \A u \in Callers, id \in TaskIds :
            (response'.op = "rejectSubmission" /\ rejectSubmission(u, id, "")) =>
                (response'.status = 400 /\ tasks' = tasks)
      ]_vars

C10_Witness ==
    /\ response.op = "rejectSubmission" /\ response.status = 400
    /\ response.user = "mgr"
    /\ "t1" \in DOMAIN tasks
    /\ tasks["t1"].assignedBy = "mgr"
    /\ tasks["t1"].submissionStatus = "Pending Review"

(***************************************************************************)
(* Claims about department membership (checked under SpecDepartments)     *)
(***************************************************************************)
AtCapacity(deptId) ==
    Len(departments[deptId].members) = departments[deptId].maxMembers

\* A request of the super admin to add an existing user who is not a member
AddsNewMember(deptId, userId) ==
    /\ userId \in DOMAIN users
    /\ ~includes(departments[deptId].members, userId)
    /\ addMemberToDepartment("admin", deptId, userId)

\* C9: every membership-add operation (register with a department,
\* addMemberToDepartment) on a department whose member count equals
\* maxMembers fails with a validation error and leaves the members and the
\* user's department unchanged; below capacity (after a member was removed)
\* adding a member succeeds.
C9_CapacityEnforcedOnEveryAdd ==
    [][ \A deptId \in DOMAIN departments :
            /\ AtCapacity(deptId) =>
                /\ \A email \in RegisterEmails :
                        register(email, Some(deptId)) =>
                            /\ response'.status = 400
                            /\ UNCHANGED <<users, departments>>
                /\ \A userId \in UserInputs :
                        AddsNewMember(deptId, userId) =>
                            /\ response'.status = 400
                            /\ UNCHANGED <<users, departments>>
            /\ ~AtCapacity(deptId) =>
                \A userId \in UserInputs :
                    (Len(departments[deptId].members) < departments[deptId].maxMembers
                        /\ AddsNewMember(deptId, userId)) => response'.status = 200
      ]_vars

(***************************************************************************)
(* Claims about the stored status and completion (checked under Spec)      *)
(***************************************************************************)
\* C11: the stored status of a task is never Overdue: in every state
\* reachable by createTask, updateTask, updateTaskStatus, updateTaskOrder,
\* submit, accept and reject it is To-Do, In-Progress or Done.
C11_StoredStatusNeverOverdue ==
    \A id \in DOMAIN tasks : tasks[id].status \in {"To-Do", "In-Progress", "Done"}

\* C12: in every reachable stored state, completedAt is set if and only if
\* the status is Done.
C12_CompletedAtIffDone ==
    \A id \in DOMAIN tasks : tasks[id].completedAt # None <=> tasks[id].status = "Done"

(***************************************************************************)
(* Claims about the submission workflow (checked under Spec)               *)
(***************************************************************************)
SubmissionOf(task) ==
    [ submissionStatus |-> task.submissionStatus,
      submittedCode    |-> task.submittedCode,
      submittedFiles   |-> task.submittedFiles,
      revisionHistory  |-> task.revisionHistory ]

\* The request is refused and the submission of the task stays as it is
Refused(id) ==
    /\ response'.status # 200
    /\ id \in DOMAIN tasks'
    /\ SubmissionOf(tasks'[id]) = SubmissionOf(tasks[id])

\* C13: Accepted is terminal: once the submissionStatus of a task is
\* Accepted, every later submit, accept or reject call is rejected and
\* changes neither submissionStatus, submittedCode, submittedFiles nor
\* revisionHistory.
C13_AcceptedIsTerminal ==
    [][ \A u \in Callers, id \in DOMAIN tasks :
            tasks[id].submissionStatus = "Accepted" =>
                /\ \A sub \in LifecycleSubmissions :
                        (response'.op = "submitTaskSolution"
                            /\ submitTaskSolution(u, id, sub.code, sub.files)) => Refused(id)
                /\ \A fb \in Feedbacks :
                        /\ (response'.op = "acceptSubmission"
                                /\ acceptSubmission(u, id, fb)) => Refused(id)
                        /\ (response'.op = "rejectSubmission"
                                /\ rejectSubmission(u, id, fb)) => Refused(id)
      ]_vars

IsPrefix(s, t) == Len(s) <= Len(t) /\ \A i \in DOMAIN s : s[i] = t[i]

\* The snapshot of the submission a task holds, as revisionHistory keeps it
\* (reviewedAt apart)
SnapshotOf(task) ==
    [ submittedCode  |-> task.submittedCode,
      submittedFiles |-> snapshotFiles(task.submittedFiles),
      submissionDate |-> task.submissionDate ]
Snapshot(entry) ==
    [ submittedCode  |-> entry.submittedCode,
      submittedFiles |-> entry.submittedFiles,
      submissionDate |-> entry.submissionDate ]

\* C14: revisionHistory is append-only: across every operation on an
\* existing task (submit, accept, reject, updateTask, updateTaskStatus) the
\* revisionHistory before is a prefix of the revisionHistory after, and a
\* successful submit on a task that holds a submission appends a snapshot of
\* that submission.
C14_RevisionHistoryAppendOnly ==
    [][ \A id \in DOMAIN tasks \cap DOMAIN tasks' :
            /\ IsPrefix(tasks[id].revisionHistory, tasks'[id].revisionHistory)
            /\ (response'.op = "submitTaskSolution" /\ response'.status = 200
                    /\ response' # response /\ hasSubmission(tasks[id])) =>
                /\ Len(tasks'[id].revisionHistory) = Len(tasks[id].revisionHistory) + 1
                /\ Snapshot(tasks'[id].revisionHistory[Len(tasks'[id].revisionHistory)])
                        = SnapshotOf(tasks[id])
      ]_vars

OwningManager(u, id) == users[u].role = "MANAGER" /\ tasks[id].assignedBy = u

\* C15: acceptSubmission and rejectSubmission succeed only when the stored
\* submissionStatus is Pending Review; when it is Not Submitted, Accepted or
\* Rejected the call fails (with the precondition error for the manager who
\* may review the task) and the task is unchanged.
C15_ReviewNeedsPendingSubmission ==
    [][ response'.op \in {"acceptSubmission", "rejectSubmission"} =>
            \A u \in Callers, id \in DOMAIN tasks, fb \in Feedbacks :
                (/\ tasks[id].submissionStatus # "Pending Review"
                 /\ acceptSubmission(u, id, fb) \/ rejectSubmission(u, id, fb))
                => /\ response'.status \in {400, 403}
                   /\ OwningManager(u, id) => response'.status = 400
                   /\ tasks' = tasks
      ]_vars

C15_Witness ==
    /\ response.op = "acceptSubmission" /\ response.status = 400
    /\ response.user = "mgr"
    /\ "t1" \in DOMAIN tasks
    /\ tasks["t1"].assignedBy = "mgr"
    /\ tasks["t1"].submissionStatus = "Rejected"

(***************************************************************************)
(* Claims about authorization (checked under Spec)                         *)
(***************************************************************************)
\* Neither the super admin nor the assigner nor the assignee of the task
Unrelated(u, id) ==
    /\ users[u].role # "SUPER_ADMIN"
    /\ tasks[id].assignedBy # u
    /\ tasks[id].assignedTo # u

\* A well-formed write request of u on the task
WritesTask(u, id) ==
    \/ \E patch \in LifecyclePatches : updateTask(u, id, patch)
    \/ deleteTask(u, id)
    \/ \E st \in Statuses : updateTaskStatus(u, id, st)
    \/ \E st \in Statuses : updateTaskOrder(u, [i \in TaskIds |-> st])
    \/ \E sub \in LifecycleSubmissions :
            /\ ~(trim(sub.code) = "" /\ Len(sub.files) = 0)
            /\ submitTaskSolution(u, id, sub.code, sub.files)
    \/ \E fb \in Feedbacks : acceptSubmission(u, id, fb)
    \/ \E fb \in Feedbacks : ~missingFeedback(fb) /\ rejectSubmission(u, id, fb)

\* C16: a principal who is not SUPER_ADMIN and is neither the assignedBy nor
\* the assignedTo of a task cannot change it through updateTask, deleteTask,
\* updateTaskStatus, updateTaskOrder, submit, accept or reject: the attempt
\* fails with Forbidden and leaves the task unchanged.
C16_UnrelatedPrincipalCannotWrite ==
    [][ \A u \in Callers, id \in DOMAIN tasks :
            (Unrelated(u, id) /\ response'.user = u /\ WritesTask(u, id)) =>
                (response'.status = 403 /\ tasks' = tasks)
      ]_vars

\* The status a read derives is Overdue
DerivedOverdue(task) == task.status # "Done" /\ PastDeadline(task)

\* C17: for a TEAM_MEMBER assigned to a task whose derived status is Overdue
\* (deadline in the past, stored status not Done), updateTaskStatus to To-Do
\* or In-Progress is rejected with Forbidden and changes nothing, while
\* updateTaskStatus to Done is accepted; the MANAGER who is assignedBy may
\* change the status of such a task.
C17_OverdueLeftOnlyThroughDone ==
    [][ response'.op = "updateTaskStatus" =>
            \A u \in Callers, id \in DOMAIN tasks :
                DerivedOverdue(tasks[id]) =>
                    /\ AssignedMember(u, id) =>
                        /\ \A st \in {"To-Do", "In-Progress"} :
                                updateTaskStatus(u, id, st) =>
                                    (response'.status = 403 /\ tasks' = tasks)
                        /\ updateTaskStatus(u, id, "Done") => response'.status = 200
                    /\ OwningManager(u, id) =>
                        \A st \in {"To-Do", "In-Progress", "Done"} :
                            updateTaskStatus(u, id, st) => response'.status = 200
      ]_vars

(***************************************************************************)
(* Claims about rescoring on update (checked under SpecPriority)           *)
(***************************************************************************)
\* The patch carries one of deadline, category, estimatedTime, tags
ChangesScoredFields(patch) ==
    \/ patch.deadline # None
    \/ patch.category # None
    \/ patch.estimatedTime # None
    \/ patch.tags # None

\* C18: after every successful updateTask whose patch changes deadline,
\* category, estimatedTime or tags, the stored aiPriorityScore is the score of
\* the merged view (the task overlaid with the patch) and the stored priority
\* is the tier of that score; a patch touching none of these fields leaves
\* aiPriorityScore unchanged.
C18_UpdateRescoresMergedView ==
    [][ response'.op = "updateTaskAI" /\ response'.status = 200 =>
            \A u \in PriorityCallers, id \in DOMAIN tasks, patch \in PriorityPatches(now) :
                updateTaskAI(u, id, patch) =>
                    IF ChangesScoredFields(patch)
                    THEN /\ tasks'[id].aiPriorityScore \in
                                calculateAIPriority(TaskDataOf(ApplyPatch(tasks[id], patch)), now)
                         /\ tasks'[id].priority = autoSetPriority(tasks'[id].aiPriorityScore)
                    ELSE tasks'[id].aiPriorityScore = tasks[id].aiPriorityScore
      ]_vars

(***************************************************************************)
(* Claims about the task listing (checked under Spec)                      *)
(***************************************************************************)
NotArchived == {id \in DOMAIN tasks : ~tasks[id].isArchived}

\* C19: getTasks without filters returns, for a TEAM_MEMBER, exactly the
\* non-archived tasks with assignedTo = self; for a SUPER_ADMIN, exactly all
\* non-archived tasks; for a MANAGER, only non-archived tasks with
\* assignedBy = self or department = the manager's department.
C19_ListingByRole ==
    [][ response'.op = "getTasks" =>
            \A u \in Callers :
                getTasks(u) =>
                    LET listed == DOMAIN response'.data IN
                    CASE users[u].role = "TEAM_MEMBER" ->
                            listed = {id \in NotArchived : tasks[id].assignedTo = u}
                      [] users[u].role = "SUPER_ADMIN" ->
                            listed = NotArchived
                      [] users[u].role = "MANAGER" ->
                            \A id \in listed :
                                /\ id \in NotArchived
                                /\ \/ tasks[id].assignedBy = u
                                   \/ /\ users[u].department # None
                                      /\ tasks[id].department = users[u].department
      ]_vars

(***************************************************************************)
(* Deactivating a department that has tasks: department.controller         *)
(* (updateDepartment, deleteDepartment) next to the task controller, in a  *)
(* deployment where mgr heads department d1 and tm is a member of it       *)
(***************************************************************************)
ManagedDepartments ==
    [d \in {"d1", "d2"} |->
        [ departmentHead |-> IF d = "d1" THEN Some("mgr") ELSE None,
          members        |-> IF d = "d1" THEN <<"mgr", "tm">> ELSE <<>>,
          maxMembers     |-> DefaultMaxMembers,
          isActive       |-> TRUE,
          createdBy      |-> "admin" ]]

\* Task.countDocuments({department, status: {$ne: 'Done'}})
activeTasks(deptId) ==
    {id \in DOMAIN tasks : tasks[id].department = Some(deptId) /\ tasks[id].status # "Done"}

\* exports.updateDepartment: the body carries departmentHead and isActive,
\* each optional
updateDepartment(u, deptId, body) ==
    /\ IF users[u].role # "SUPER_ADMIN"
       THEN /\ response' = Respond("updateDepartment", u, deptId, 403)
            /\ UNCHANGED <<users, departments>>
       ELSE IF deptId \notin DOMAIN departments
       THEN /\ response' = Respond("updateDepartment", u, deptId, 404)
            /\ UNCHANGED <<users, departments>>
       ELSE LET department == departments[deptId]
                changesHead == body.departmentHead # None
                                /\ body.departmentHead # department.departmentHead
            IN IF changesHead /\ Val(body.departmentHead) \notin DOMAIN users
               THEN /\ response' = Respond("updateDepartment", u, deptId, 404)
                    /\ UNCHANGED <<users, departments>>
               ELSE LET newHead == Val(body.departmentHead)
                        demoted ==
                            IF changesHead /\ department.departmentHead # None
                                /\ Val(department.departmentHead) \in DOMAIN users
                            THEN [users EXCEPT
                                    ![Val(department.departmentHead)].role = "TEAM_MEMBER",
                                    ![Val(department.departmentHead)].department = None]
                            ELSE users
                        members ==
                            IF changesHead /\ ~includes(department.members, newHead)
                            THEN Append(department.members, newHead)
                            ELSE department.members
                    IN /\ users' = IF changesHead
                                   THEN [demoted EXCEPT ![newHead].role = "MANAGER",
                                                        ![newHead].department = Some(deptId)]
                                   ELSE users
                       /\ departments' = [departments EXCEPT ![deptId] =
                            [@ EXCEPT !.members = members,
                                      !.departmentHead = IF body.departmentHead # None
                                                         THEN body.departmentHead ELSE @,
                                      !.isActive = IF body.isActive # None
                                                   THEN Val(body.isActive) ELSE @]]
                       /\ response' = Respond("updateDepartment", u, deptId, 200)
    /\ UNCHANGED <<now, taskData, score, openai, tasks>>

\* exports.deleteDepartment
deleteDepartment(u, deptId) ==
    /\ IF users[u].role # "SUPER_ADMIN"
       THEN /\ response' = Respond("deleteDepartment", u, deptId, 403)
            /\ UNCHANGED <<users, departments>>
       ELSE IF deptId \notin DOMAIN departments
       THEN /\ response' = Respond("deleteDepartment", u, deptId, 404)
            /\ UNCHANGED <<users, departments>>
       ELSE IF Cardinality(activeTasks(deptId)) > 0
       THEN /\ response' = Respond("deleteDepartment", u, deptId, 400)
            /\ UNCHANGED <<users, departments>>
       ELSE /\ users' = [x \in DOMAIN users |->
                            IF users[x].department = Some(deptId)
                            THEN [users[x] EXCEPT !.department = None,
                                                  !.role = "TEAM_MEMBER"]
                            ELSE users[x]]
            /\ departments' = [departments EXCEPT ![deptId].isActive = FALSE]
            /\ response' = Respond("deleteDepartment", u, deptId, 200)
    /\ UNCHANGED <<now, taskData, score, openai, tasks>>

\* The bodies updateDepartment is called with: the member of d1 or an id
\* that matches no user as the new head, isActive set or cleared
DepartmentBodies ==
    [ departmentHead : {None, Some("tm"), Some("u0")},
      isActive       : {None, Some(TRUE), Some(FALSE)} ]
\* The departments addressed: d1 and an id that matches none
ManagedDepartmentInputs == {"d1", "d9"}
\* The callers: the super admin, the head of d1 and its member
DepartmentTaskCallers == {"admin", "mgr", "tm"}

InitDepartmentTasks ==
    /\ now = 0
    /\ taskData = [deadline |-> None, category |-> Undefined, estimatedTime |-> None,
                   tags |-> None, priority |-> Undefined]
    /\ score = None
    /\ openai = FALSE
    /\ tasks = <<>>
    /\ users = InitUsers
    /\ departments = ManagedDepartments
    /\ response = NoResponse
    /\ script = NoScript

TaskRequests ==
    \E u \in DepartmentTaskCallers, id \in TaskIds :
        \/ \E body \in LifecycleBodies : createTask(u, id, body)
        \/ \E st \in Statuses : updateTaskStatus(u, id, st)
DepartmentRequests ==
    \E u \in DepartmentTaskCallers, deptId \in ManagedDepartmentInputs :
        \/ \E body \in DepartmentBodies : updateDepartment(u, deptId, body)
        \/ deleteDepartment(u, deptId)

NextDepartmentTasks ==
    \/ TaskRequests /\ UNCHANGED script
    \/ DepartmentRequests /\ UNCHANGED script

SpecDepartmentTasks == InitDepartmentTasks /\ [][NextDepartmentTasks]_vars

(***************************************************************************)
(* Claims about deactivating departments (checked under                    *)
(* SpecDepartmentTasks)                                                    *)
(***************************************************************************)
Deactivated(deptId) == departments[deptId].isActive /\ ~departments'[deptId].isActive

\* C20: isActive of a department changes from true to false only in a state
\* where no task referencing the department has a status other than Done,
\* whichever operation performs the change (deleteDepartment,
\* updateDepartment); deleteDepartment on a department with a task that is
\* not Done fails and leaves the department and all users unchanged.
C20_DeactivatedOnlyWithoutActiveTasks ==
    [][ \A deptId \in DOMAIN departments :
            /\ Deactivated(deptId) => activeTasks(deptId) = {}
            /\ \A u \in DepartmentTaskCallers :
                    (activeTasks(deptId) # {} /\ deleteDepartment(u, deptId)) =>
                        /\ response'.status # 200
                        /\ UNCHANGED <<departments, users>>
      ]_vars

(***************************************************************************)
(* The organisation: department.controller (createDepartment), the user    *)
(* controller (promoteToManager, demoteToTeamMember) and auth.controller   *)
(* (login) next to the membership handlers, on the seeded database         *)
(***************************************************************************)
MaxStaff == 1         \* most users registered in the organisation specification

\* Department.create: the id of the new department stands for its name
NewDepartment(departmentHead, u) ==
    [ departmentHead |-> departmentHead,
      members        |-> IF departmentHead # None THEN <<Val(departmentHead)>> ELSE <<>>,
      maxMembers     |-> DefaultMaxMembers,
      isActive       |-> TRUE,
      createdBy      |-> u ]

\* exports.createDepartment: the body carries name and departmentHead
createDepartment(u, name, departmentHead) ==
    /\ IF users[u].role # "SUPER_ADMIN"
       THEN /\ response' = Respond("createDepartment", u, name, 403)
            /\ UNCHANGED <<users, departments>>
       ELSE IF name \in DOMAIN departments
       THEN /\ response' = Respond("createDepartment", u, name, 400)
            /\ UNCHANGED <<users, departments>>
       ELSE IF departmentHead # None /\ Val(departmentHead) \notin DOMAIN users
       THEN /\ response' = Respond("createDepartment", u, name, 404)
            /\ UNCHANGED <<users, departments>>
       ELSE /\ departments' = departments @@ (name :> NewDepartment(departmentHead, u))
            /\ users' = IF departmentHead # None
                        THEN [users EXCEPT ![Val(departmentHead)].department = Some(name),
                                           ![Val(departmentHead)].role = "MANAGER"]
                        ELSE users
            /\ response' = Respond("createDepartment", u, name, 201)
    /\ UNCHANGED <<now, taskData, score, openai, tasks>>

\* exports.promoteToManager
promoteToManager(u, userId) ==
    /\ IF users[u].role # "SUPER_ADMIN"
       THEN /\ response' = Respond("promoteToManager", u, userId, 403)
            /\ UNCHANGED <<users, departments>>
       ELSE IF userId \notin DOMAIN users
       THEN /\ response' = Respond("promoteToManager", u, userId, 404)
            /\ UNCHANGED <<users, departments>>
       ELSE IF users[userId].department = None
       THEN /\ response' = Respond("promoteToManager", u, userId, 400)
            /\ UNCHANGED <<users, departments>>
       ELSE IF users[userId].role = "MANAGER"
       THEN /\ response' = Respond("promoteToManager", u, userId, 400)
            /\ UNCHANGED <<users, departments>>
       ELSE IF Val(users[userId].department) \notin DOMAIN departments
       THEN /\ response' = Respond("promoteToManager", u, userId, 404)
            /\ UNCHANGED <<users, departments>>
       ELSE LET deptId == Val(users[userId].department)
                department == departments[deptId]
                demoted ==
                    IF department.departmentHead # None
                        /\ Val(department.departmentHead) \in DOMAIN users
                    THEN [users EXCEPT
                            ![Val(department.departmentHead)].role = "TEAM_MEMBER"]
                    ELSE users
            IN /\ users' = [demoted EXCEPT ![userId].role = "MANAGER"]
               /\ departments' = [departments EXCEPT
                                    ![deptId].departmentHead = Some(userId)]
               /\ response' = Respond("promoteToManager", u, userId, 200)
    /\ UNCHANGED <<now, taskData, score, openai, tasks>>

\* exports.demoteToTeamMember: findByIdAndUpdate skips a department id
\* that matches no document
demoteToTeamMember(u, userId) ==
    /\ IF users[u].role # "SUPER_ADMIN"
       THEN /\ response' = Respond("demoteToTeamMember", u, userId, 403)
            /\ UNCHANGED <<users, departments>>
       ELSE IF userId \notin DOMAIN users
       THEN /\ response' = Respond("demoteToTeamMember", u, userId, 404)
            /\ UNCHANGED <<users, departments>>
       ELSE IF users[userId].role # "MANAGER"
       THEN /\ response' = Respond("demoteToTeamMember", u, userId, 400)
            /\ UNCHANGED <<users, departments>>
       ELSE /\ users' = [users EXCEPT ![userId].role = "TEAM_MEMBER"]
            /\ departments' =
                IF users[userId].department # None
                    /\ Val(users[userId].department) \in DOMAIN departments
                THEN [departments EXCEPT
                        ![Val(users[userId].department)].departmentHead = None]
                ELSE departments
            /\ response' = Respond("demoteToTeamMember", u, userId, 200)
    /\ UNCHANGED <<now, taskData, score, openai, tasks>>

\* User.findOne({email})
findByEmail(email) == {u \in DOMAIN users : users[u].email = email}

\* exports.login: isMatch is the answer of user.comparePassword(password)
login(email, isMatch) ==
    /\ IF findByEmail(email) = {} \/ ~isMatch
       THEN /\ response' = Respond("login", "none", email, 401)
            /\ users' = users
       ELSE LET u == CHOOSE x \in findByEmail(email) : TRUE
            IN /\ users' = IF users[u].email = SuperAdminEmail
                                /\ users[u].role # "SUPER_ADMIN"
                           THEN [users EXCEPT ![u].role = "SUPER_ADMIN",
                                              ![u].department = None]
                           ELSE users
               /\ response' = Respond("login", u, email, 200)
    /\ UNCHANGED <<now, taskData, score, openai, tasks, departments>>

\* The inputs: the super admin and the first user registered (an id that
\* matches no user until then) as callers and as the users acted on; a
\* seeded department and the one created later (an id that matches no
\* department until then)
OrganisationCallers == {"admin", UserNames[1]} \cap DOMAIN users
OrganisationUsers == {"admin", UserNames[1]}
OrganisationDepartments == {"d1", "d3"}
NewDepartmentNames == {"d1", "d3"}
OrganisationHeads == {None, Some("admin"), Some(UserNames[1])}
OrganisationBodies == [departmentHead : OrganisationHeads, isActive : {None}]
OrganisationEmails == {SuperAdminEmail, NewUserId}
OrganisationLogins == {SuperAdminEmail, "nobody"}

BoundedStaff == Cardinality(DOMAIN users) <= MaxStaff + 1

OrgRegister ==
    \E email \in OrganisationEmails, department \in {None, Some("d1"), Some("d3")} :
        register(email, department)
OrgLogin ==
    \E email \in OrganisationLogins, isMatch \in BOOLEAN : login(email, isMatch)
OrgDepartments ==
    \E u \in OrganisationCallers :
        \/ \E name \in NewDepartmentNames, head \in OrganisationHeads :
                createDepartment(u, name, head)
        \/ \E deptId \in OrganisationDepartments, body \in OrganisationBodies :
                updateDepartment(u, deptId, body)
        \/ \E deptId \in OrganisationDepartments : deleteDepartment(u, deptId)
OrgMembers ==
    \E u \in OrganisationCallers, deptId \in OrganisationDepartments,
       userId \in OrganisationUsers :
        \/ addMemberToDepartment(u, deptId, userId)
        \/ removeMemberFromDepartment(u, deptId, userId)
OrgRoles ==
    \E u \in OrganisationCallers, userId \in OrganisationUsers :
        \/ promoteToManager(u, userId)
        \/ demoteToTeamMember(u, userId)

NextOrganisation ==
    \/ OrgRegister /\ BoundedStaff' /\ UNCHANGED script
    \/ OrgLogin /\ UNCHANGED script
    \/ OrgDepartments /\ UNCHANGED script
    \/ OrgMembers /\ UNCHANGED script
    \/ OrgRoles /\ UNCHANGED script

SpecOrganisation == InitDepartments /\ [][NextOrganisation]_vars

(***************************************************************************)
(* Claims about the organisation (checked under SpecOrganisation)          *)
(***************************************************************************)
\* C21: in every state reachable by createDepartment, updateDepartment,
\* addMemberToDepartment, removeMemberFromDepartment, promoteToManager and
\* demoteToTeamMember, each department whose departmentHead is set has that
\* user among its members.
C21_HeadIsMember ==
    \A d \in DOMAIN departments :
        departments[d].departmentHead # None =>
            includes(departments[d].members, Val(departments[d].departmentHead))

\* C22: membership and the department field of the user agree: in every
\* state reachable by register, createDepartment, updateDepartment,
\* addMemberToDepartment, removeMemberFromDepartment and deleteDepartment,
\* a user is among the members of a department if and only if the user's
\* department is that department.
C22_MembershipMatchesUserDepartment ==
    \A u \in DOMAIN users, d \in DOMAIN departments :
        includes(departments[d].members, u) <=> users[u].department = Some(d)

\* C23: after every successful login with the reserved super-admin e-mail
\* the stored user has role SUPER_ADMIN and no department, whatever role or
\* department earlier operations had given that user.
C23_LoginRestoresSuperAdmin ==
    (response.op = "login" /\ response.status = 200
        /\ response.target = SuperAdminEmail) =>
            /\ users[response.user].role = "SUPER_ADMIN"
            /\ users[response.user].department = None

(***************************************************************************)
(* Two submission requests on one task at the same time.  A handler is     *)
(* `task = await Task.findById(id)` ... `await task.save()`: another       *)
(* request runs between the two awaits.  script holds, per request, the    *)
(* document it loaded and where it stands.                                 *)
(***************************************************************************)
Requesters == {"a", "b"}

\* A task mgr assigned to tm, and the same task after tm submitted c1
AssignedTask ==
    NewTask([ description |-> "", deadline |-> None, category |-> Undefined,
              estimatedTime |-> None, tags |-> None, priority |-> Undefined,
              assignedTo |-> Some("tm"), status |-> Undefined,
              aiPriorityScore |-> None, department |-> Some("d1"),
              user |-> "mgr", assignedBy |-> "mgr" ], 0)
PendingTask == submitted(AssignedTask, "c1", <<>>, 0)

\* The requests sent: submissions of tm, a rejection by mgr, a submission
\* by somebody the task is not assigned to
ConcurrentRequests ==
    { [op |-> "submitTaskSolution", user |-> "tm", code |-> "c2", files |-> <<>>,
       feedback |-> ""],
      [op |-> "submitTaskSolution", user |-> "tm", code |-> "", files |-> <<"f1">>,
       feedback |-> ""],
      [op |-> "submitTaskSolution", user |-> "tm2", code |-> "c2", files |-> <<>>,
       feedback |-> ""],
      [op |-> "rejectSubmission", user |-> "mgr", code |-> "", files |-> <<>>,
       feedback |-> "fix X"] }

NotSent == [pc |-> "idle", req |-> None, loaded |-> None, stale |-> FALSE, status |-> 0]

\* The status a request is refused with before it changes anything
\* (0: it is not refused)
refusal(req, id) ==
    IF req.op = "submitTaskSolution"
    THEN IF trim(req.code) = "" /\ Len(req.files) = 0 THEN 400
         ELSE IF id \notin DOMAIN tasks THEN 404
         ELSE IF tasks[id].assignedTo # req.user THEN 403
         ELSE 0
    ELSE IF missingFeedback(req.feedback) THEN 400
         ELSE IF id \notin DOMAIN tasks THEN 404
         ELSE IF users[req.user].role # "MANAGER" \/ tasks[id].assignedBy # req.user THEN 403
         ELSE IF ~hasPendingSubmission(tasks[id]) THEN 400
         ELSE 0

\* The document of a request between findById and save
mutated(req, task, nw) ==
    IF req.op = "submitTaskSolution"
    THEN submitted(task, req.code, req.files, nw)
    ELSE rejected(task, req.feedback, nw)

\* The entries a request pushed to task.revisionHistory
pushed(loaded, doc) ==
    SubSeq(doc.revisionHistory, Len(loaded.revisionHistory) + 1, Len(doc.revisionHistory))

\* Document.prototype.save sends the changes made to the document since it
\* was loaded: the entries pushed to an array as $push (appended to the
\* stored array), every path that was assigned a new value as $set
OverwritingSave(stored, loaded, doc) == doc
save(stored, loaded, doc) ==
    [f \in DOMAIN stored |->
        IF f = "revisionHistory" THEN stored[f] \o pushed(loaded, doc)
        ELSE IF doc[f] # loaded[f] THEN doc[f]
        ELSE stored[f]]

\* `const task = await Task.findById(req.params.id)` and the checks that
\* follow it
Load(p, req, id) ==
    /\ script[p].pc = "idle"
    /\ LET code == refusal(req, id)
       IN IF code # 0
          THEN /\ script' = [script EXCEPT ![p] = [@ EXCEPT !.pc = "done", !.req = Some(req),
                                                            !.status = code]]
               /\ response' = Respond(req.op, req.user, id, code)
          ELSE /\ script' = [script EXCEPT ![p] = [@ EXCEPT !.pc = "loaded", !.req = Some(req),
                                                            !.loaded = Some(tasks[id])]]
               /\ response' = response
    /\ UNCHANGED <<now, taskData, score, openai, tasks, users, departments>>

\* `await task.save()`: the other request, if it loaded the task before,
\* now holds a document older than the stored one
Save(p, id) ==
    /\ script[p].pc = "loaded"
    /\ LET req == Val(script[p].req)
           loaded == Val(script[p].loaded)
           doc == preSave(loaded, mutated(req, loaded, now), now)
       IN /\ tasks' = [tasks EXCEPT ![id] = save(@, loaded, doc)]
          /\ script' = [q \in Requesters |->
                            IF q = p THEN [script[q] EXCEPT !.pc = "done", !.status = 200]
                            ELSE IF script[q].pc = "loaded"
                            THEN [script[q] EXCEPT !.stale = TRUE]
                            ELSE script[q]]
          /\ response' = Respond(req.op, req.user, id, 200)
    /\ UNCHANGED <<now, taskData, score, openai, users, departments>>

\* save() of a document whose array path was assigned (submittedFiles) is
\* sent with the version the document was loaded at: when the stored
\* document is newer the save can fail with a VersionError, answered 500
VersionError(p, id) ==
    /\ script[p].pc = "loaded"
    /\ script[p].stale
    /\ Val(script[p].req).op = "submitTaskSolution"
    /\ script' = [script EXCEPT ![p] = [@ EXCEPT !.pc = "done", !.status = 500]]
    /\ response' = Respond(Val(script[p].req).op, Val(script[p].req).user, id, 500)
    /\ UNCHANGED <<now, taskData, score, openai, tasks, users, departments>>

InitConcurrent ==
    /\ now = 0
    /\ taskData = [deadline |-> None, category |-> Undefined, estimatedTime |-> None,
                   tags |-> None, priority |-> Undefined]
    /\ score = None
    /\ openai = FALSE
    /\ tasks \in {"t1" :> AssignedTask, "t1" :> PendingTask}
    /\ users = InitUsers
    /\ departments = ManagedDepartments
    /\ response = NoResponse
    /\ script = [p \in Requesters |-> NotSent]

NextConcurrent ==
    \E p \in Requesters, id \in TaskIds :
        \/ \E req \in ConcurrentRequests : Load(p, req, id)
        \/ Save(p, id)
        \/ VersionError(p, id)

SpecConcurrent == InitConcurrent /\ [][NextConcurrent]_vars

(***************************************************************************)
(* Claims about concurrent requests (checked under SpecConcurrent)         *)
(***************************************************************************)
\* The entries a request that was answered 200 pushed to the history
PushedBy(p) ==
    LET loaded == Val(script[p].loaded)
    IN pushed(loaded, mutated(Val(script[p].req), loaded, now))

Contains(history, entry) == \E i \in DOMAIN history : history[i] = entry

\* C24: no revision is lost under concurrency: when two submission
\* operations on the same task (submit/submit or submit/reject) interleave,
\* each as load, mutate, save, the stored revisionHistory contains every
\* entry that either operation pushed.
C24_NoRevisionLost ==
    \A p \in Requesters :
        (script[p].pc = "done" /\ script[p].status = 200) =>
            \A i \in DOMAIN PushedBy(p) :
                Contains(tasks["t1"].revisionHistory, PushedBy(p)[i])

\* A submission and a rejection that both loaded the task before either
\* saved, both answered 200
C24_Witness ==
    /\ \A p \in Requesters : script[p].pc = "done" /\ script[p].status = 200
    /\ script["a"].stale
    /\ Val(script["a"].req).op = "submitTaskSolution"
    /\ Val(script["b"].req).op = "rejectSubmission"
    /\ Len(tasks["t1"].revisionHistory) = 2

(***************************************************************************)
(* The deadline scan: notification.service (checkDeadlines), started by    *)
(* the cron job while an earlier run may still be waiting on an await.     *)
(* script holds, per run, the tasks it found and where it stands, and the  *)
(* number of reminders delivered per task.                                 *)
(***************************************************************************)
Scanners == {"s1", "s2"}
ScanTaskIds == <<"t1", "t2">>

\* Two tasks of mgr: t1 assigned to tm, t2 to tm2, due within the hour or
\* after more than a day
ScanTask(assignedTo, deadline) ==
    [AssignedTask EXCEPT !.assignedTo = assignedTo, !.deadline = Some(deadline)]
ScanTasks ==
    { ("t1" :> ScanTask("tm", d1)) @@ ("t2" :> ScanTask("tm2", d2)) :
        d1 \in {MsPerHour, MsPerDay + MsPerHour}, d2 \in {MsPerHour} }

\* user.preferences.emailNotifications of the users, set by
\* updatePreferences
WithPreferences(notified) ==
    [u \in DOMAIN InitUsers |->
        [ email |-> InitUsers[u].email, role |-> InitUsers[u].role,
          department |-> InitUsers[u].department,
          preferences |-> [emailNotifications |-> u \in notified] ]]

\* The query of checkDeadlines: due within 24 hours, not reminded yet
upcoming(task, nw) ==
    /\ task.status # "Done"
    /\ task.deadline # None
    /\ Val(task.deadline) >= nw
    /\ Val(task.deadline) <= nw + MsPerDay
    /\ task.reminderSent = FALSE
    /\ task.isArchived = FALSE

NoScan == [pc |-> "idle", found |-> <<>>]

\* `const upcomingTasks = await Task.find(...)`: the documents as stored at
\* that moment, each with its id
Find(p) ==
    /\ script.scans[p].pc = "idle"
    /\ LET ids == SelectSeq(ScanTaskIds,
                        LAMBDA id : id \in DOMAIN tasks /\ upcoming(tasks[id], now))
           found == [i \in DOMAIN ids |-> [id |-> ids[i], doc |-> tasks[ids[i]]]]
       IN script' = [script EXCEPT !.scans[p] =
                        [pc |-> IF Len(found) = 0 THEN "done" ELSE "send", found |-> found]]
    /\ UNCHANGED <<now, taskData, score, openai, tasks, users, departments, response>>

\* The next task of the loop: `await this.sendDeadlineReminder(task)` when
\* the assignee has e-mail notifications on, nothing otherwise
Send(p) ==
    /\ script.scans[p].pc = "send"
    /\ LET found == script.scans[p].found
           task == Head(found)
       IN IF users[task.doc.assignedTo].preferences.emailNotifications
          THEN script' = [script EXCEPT !.scans[p].pc = "mark",
                                        !.sent[task.id] = @ + 1]
          ELSE script' = [script EXCEPT !.scans[p] =
                            [pc |-> IF Len(found) = 1 THEN "done" ELSE "send",
                             found |-> Tail(found)]]
    /\ UNCHANGED <<now, taskData, score, openai, tasks, users, departments, response>>

\* `task.reminderSent = true; await task.save()`
Mark(p) ==
    /\ script.scans[p].pc = "mark"
    /\ LET found == script.scans[p].found
           task == Head(found)
       IN /\ tasks' = [tasks EXCEPT ![task.id] =
                        save(@, task.doc, [task.doc EXCEPT !.reminderSent = TRUE])]
          /\ script' = [script EXCEPT !.scans[p] =
                            [pc |-> IF Len(found) = 1 THEN "done" ELSE "send",
                             found |-> Tail(found)]]
    /\ UNCHANGED <<now, taskData, score, openai, users, departments, response>>

InitScan ==
    /\ now = 0
    /\ taskData = [deadline |-> None, category |-> Undefined, estimatedTime |-> None,
                   tags |-> None, priority |-> Undefined]
    /\ score = None
    /\ openai = FALSE
    /\ tasks \in ScanTasks
    /\ \E notified \in {{"tm"}, {"tm", "tm2"}} : users = WithPreferences(notified)
    /\ departments = ManagedDepartments
    /\ response = NoResponse
    /\ script = [ scans |-> [p \in Scanners |-> NoScan],
                  sent  |-> [id \in {"t1", "t2"} |-> 0] ]

NextScan ==
    \/ Tick /\ UNCHANGED script
    \/ \E p \in Scanners : Find(p)
    \/ \E p \in Scanners : Send(p)
    \/ \E p \in Scanners : Mark(p)

SpecScan == InitScan /\ [][NextScan]_vars

(***************************************************************************)
(* Claims about the deadline scan (checked under SpecScan)                 *)
(***************************************************************************)
\* C25: under any interleaving of two or more runs of the deadline scan the
\* reminder for a task is sent at most once, and reminderSent, once true,
\* never returns to false.
C25_ReminderSentAtMostOnce ==
    [][ /\ \A id \in DOMAIN script'.sent : script'.sent[id] <= 1
        /\ \A id \in DOMAIN tasks :
                tasks[id].reminderSent => tasks'[id].reminderSent
      ]_vars

(***************************************************************************)
(* Claims about the owner of a task (checked under Spec)                   *)
(***************************************************************************)
\* The principal stored as assignedBy, a manager or the super admin
Owner(u, id) ==
    /\ tasks[id].assignedBy = u
    /\ users[u].role \in {"MANAGER", "SUPER_ADMIN"}

\* C26: the principal stored as the assignedBy of a task may accept, reject
\* and delete it whether their role is MANAGER or SUPER_ADMIN: accepting or
\* rejecting (with feedback) a Pending Review submission and deleting the
\* task succeed for the super admin who created it as for a manager.
C26_OwnerMayReviewAndDelete ==
    [][ response'.op \in {"acceptSubmission", "rejectSubmission", "deleteTask"} =>
            \A u \in Callers, id \in DOMAIN tasks :
                Owner(u, id) =>
                    /\ deleteTask(u, id) => response'.status = 200
                    /\ tasks[id].submissionStatus = "Pending Review" =>
                        /\ \A fb \in Feedbacks :
                                acceptSubmission(u, id, fb) => response'.status = 200
                        /\ rejectSubmission(u, id, "fix X") => response'.status = 200
      ]_vars

(***************************************************************************)
(* Completing a task: updateTaskStatus and acceptSubmission on a task      *)
(* whose deadline the manager may remove (updateTask with deadline: null)  *)
(***************************************************************************)
\* The body that removes the deadline
CompletionPatches == {[NoPatch EXCEPT !.deadline = Null]}
CompletionCallers == {"mgr", "tm"}

CompletionRequests ==
    \E u \in CompletionCallers, id \in TaskIds :
        \/ \E body \in LifecycleBodies : createTask(u, id, body)
        \/ \E patch \in CompletionPatches : updateTask(u, id, patch)
        \/ \E st \in Statuses : updateTaskStatus(u, id, st)
        \/ submitTaskSolution(u, id, "c1", <<>>)
        \/ \E fb \in Feedbacks : acceptSubmission(u, id, fb)
        \/ rejectSubmission(u, id, "fix X")

NextCompletion ==
    \/ Tick /\ UNCHANGED script
    \/ CompletionRequests /\ Bounded' /\ UNCHANGED script

SpecCompletion == Init /\ [][NextCompletion]_vars

(***************************************************************************)
(* Claims about completing a task (checked under SpecCompletion)           *)
(***************************************************************************)
\* The side effects of a transition into Done
DoneEffects(before, after) ==
    /\ after.completedAt = Some(now)
    /\ before.deadline # None =>
            after.completedBeforeDeadline = Some(now <= Val(before.deadline))
    /\ before.deadline = None =>
            after.completedBeforeDeadline = before.completedBeforeDeadline

\* C27: every transition into Done from a status other than Done applies
\* the same side effects through updateTaskStatus(Done) and through
\* acceptSubmission: completedAt becomes the current time;
\* completedBeforeDeadline becomes (now <= deadline) when the task has a
\* deadline and is left as it was when it has none.  A transition out of
\* Done clears completedAt and leaves completedBeforeDeadline untouched.
C27_DoneTransitionSideEffects ==
    [][ \A u \in CompletionCallers, id \in DOMAIN tasks :
            /\ tasks[id].status # "Done" =>
                /\ (updateTaskStatus(u, id, "Done") /\ response'.status = 200) =>
                        DoneEffects(tasks[id], tasks'[id])
                /\ \A fb \in Feedbacks :
                        (acceptSubmission(u, id, fb) /\ response'.status = 200) =>
                            DoneEffects(tasks[id], tasks'[id])
            /\ tasks[id].status = "Done" =>
                \A st \in Statuses \ {"Done"} :
                    (updateTaskStatus(u, id, st) /\ response'.status = 200) =>
                        /\ tasks'[id].completedAt = None
                        /\ tasks'[id].completedBeforeDeadline =
                                tasks[id].completedBeforeDeadline
      ]_vars

(***************************************************************************)
(* Claims about the floor of the rule-based score (checked under           *)
(* SpecScore)                                                              *)
(***************************************************************************)
\* C28: on the rule-based path the score is never below 50 for any input
\* (every contribution is non-negative on a base of 50), so a task scored
\* by createTask or recalculatePriority through the rules is never given
\* the tier Low.
C28_RuleBasedNeverLow ==
    Scored =>
        /\ Val(score) >= 50
        /\ autoSetPriority(Val(score)) # "Low"
        /\ updatePriorityFromScore(Val(score)) # "Low"

\* The floor itself: nothing set but a long estimate
C28_Witness ==
    /\ Scored
    /\ Val(score) = 50
    /\ taskData.deadline = None
    /\ taskData.estimatedTime = Some(121)
    /\ autoSetPriority(Val(score)) = "Medium"

(***************************************************************************)
(* Repeated recalculatePriority on one task, rule-based (no OpenAI client) *)
(* with the clock standing still; script.step counts the calls             *)
(***************************************************************************)
MaxCalls == 5         \* most consecutive recalculatePriority calls

\* The stored tasks of mgr the calls start from: every stored priority,
\* deadlines overdue, near and far, every category
RecalcTasks ==
    { [ NewTask([ description |-> "", deadline |-> deadline, category |-> category,
                  estimatedTime |-> estimatedTime, tags |-> tags, priority |-> priority,
                  assignedTo |-> Some("tm"), status |-> Undefined,
                  aiPriorityScore |-> None, department |-> None,
                  user |-> "mgr", assignedBy |-> "mgr" ], 0)
        EXCEPT !.aiPriorityScore = aiPriorityScore ] :
        deadline \in {None, Some(-2 * MsPerDay), Some(2 * MsPerDay), Some(10 * MsPerDay)},
        category \in Categories,
        estimatedTime \in {None, Some(30), Some(60)},
        tags \in {None, Some(<< <<"A","S","A","P">> >>)},
        priority \in Priorities,
        aiPriorityScore \in {0, 50} }

InitRecalc ==
    /\ now = 0
    /\ taskData = [deadline |-> None, category |-> Undefined, estimatedTime |-> None,
                   tags |-> None, priority |-> Undefined]
    /\ score = None
    /\ openai = FALSE
    /\ \E task \in RecalcTasks : tasks = ("t1" :> task)
    /\ users = InitUsers
    /\ departments = <<>>
    /\ response = NoResponse
    /\ script = NoScript

Recalculate ==
    /\ script.step < MaxCalls
    /\ recalculatePriority("mgr", "t1")
    /\ script' = [script EXCEPT !.step = @ + 1]

NextRecalc == Recalculate

SpecRecalc == InitRecalc /\ [][NextRecalc]_vars

(***************************************************************************)
(* Claims about repeated recalculation (checked under SpecRecalc)          *)
(***************************************************************************)
\* C29: the stored tier is fed back as the manual-priority hint, so
\* recalculatePriority is not a function of the task attributes alone, but
\* it converges: for a task with fixed deadline, category, estimatedTime
\* and tags, a fixed clock and any stored priority, after at most three
\* consecutive calls a further call changes neither aiPriorityScore nor
\* priority.
C29_RecalculateConverges ==
    [][ (script.step >= 3 /\ recalculatePriority("mgr", "t1")) =>
            /\ tasks'["t1"].aiPriorityScore = tasks["t1"].aiPriorityScore
            /\ tasks'["t1"].priority = tasks["t1"].priority
      ]_vars

\* Four calls on a task whose attributes alone score 70: 70 Medium, 75
\* High, 85 High from a stored Low
C29_Witness ==
    /\ script.step = 4
    /\ response.op = "recalculatePriority" /\ response.status = 200
    /\ tasks["t1"].category = "Urgent"
    /\ tasks["t1"].deadline = None
    /\ tasks["t1"].estimatedTime = None
    /\ tasks["t1"].tags = <<>>
    /\ tasks["t1"].aiPriorityScore = 85
    /\ tasks["t1"].priority = "High"

(***************************************************************************)
(* Claims about accepted submissions (checked under Spec)                  *)
(***************************************************************************)
\* C30: in every state reachable by submit, accept, reject,
\* updateTaskStatus, updateTaskOrder and updateTask, a task whose
\* submissionStatus is Accepted has status Done.
C30_AcceptedImpliesDone ==
    \A id \in DOMAIN tasks :
        tasks[id].submissionStatus = "Accepted" => tasks[id].status = "Done"

====
